---- MODULE Spec2Model ----
(***************************************************************************)
(* Model of src/service-worker.js: the offline-support service worker of   *)
(* HoB Tools.  Three handlers (install, activate, fetch) run as            *)
(* asynchronous tasks over the origin's cache registry; every await of the *)
(* source is one step of the model.                                        *)
(***************************************************************************)
EXTENDS Integers, Sequences, FiniteSets, TLC

VARIABLES
    net,        \* the environment seen by Install: manifest endpoint and servable URLs
    registry,   \* CacheStorage: cache name -> id of the store registered under it (0: none)
    stores,     \* contents of every Cache object ever created: id -> (url -> response)
    nextId,     \* id the next created Cache object gets
    install,    \* the install handler's task
    activate,   \* the activate handler's task
    tasks       \* the fetch handler's tasks, one per dispatched fetch event

vars == <<net, registry, stores, nextId, install, activate, tasks>>

---------------------------------------------------------------------------
(* Bounds *)

\* fetch events being handled at the same time
NTasks == 2
\* Cache objects created in one behaviour (including the ones present at the start)
MaxStores == 3
\* entries of the manifest's "files" object
MaxFiles == 2
\* times the activate event is dispatched
MaxActivations == 2

---------------------------------------------------------------------------
(* Constants of the source *)

CACHE_NAME == "hob-tools-v2"

CORE_URLS == << "/", "/index.html", "/manifest.json", "/favicon.ico",
                "/logo192.svg", "/logo512.svg" >>

\* The store name of the superseded worker and of the one before it.
PREV_CACHE_NAME == "hob-tools-v1"

OLDER_CACHE_NAME == "hob-tools-v0"

CacheNames == {OLDER_CACHE_NAME, PREV_CACHE_NAME, CACHE_NAME}

INDEX_URL == "/index.html"

MAIN_JS == "/static/main.abc123.js"

Range(s) == {s[i] : i \in 1..Len(s)}

CoreSet == Range(CORE_URLS)

AllURLs == CoreSet \cup {MAIN_JS, "/about"}

---------------------------------------------------------------------------
(* Responses *)

\* status, type: as in the Fetch API; body: which fetch produced it
\* (0: a fetch of Install's addAll, t: the network fetch of fetch task t);
\* clone: the object is the response.clone() of the one the network returned.
MkResponse(st, ty, b) == [status |-> st, type |-> ty, body |-> b, clone |-> FALSE]

\* cache.match() found nothing (undefined)
NoEntry == [status |-> 0, type |-> "none", body |-> 0, clone |-> FALSE]

\* Response.error()
ErrorResponse == [status |-> 0, type |-> "error", body |-> 0, clone |-> FALSE]

\* response.clone()
Clone(r) == [r EXCEPT !.clone = TRUE]

\* what a resolved fetch() of task t can deliver
NetResponses(t) == { MkResponse(200, "basic", t), MkResponse(404, "basic", t),
                     MkResponse(0, "opaque", t) }

EmptyStore == [u \in AllURLs |-> NoEntry]

\* the || Response.error() forgotten
OrUndefined(r) == r

\* cached || Response.error()
OrError(r) == IF r # NoEntry THEN r ELSE ErrorResponse

---------------------------------------------------------------------------
(* CacheStorage *)

\* every name ever used listed, deleted or not
KeysEverUsed == CacheNames

\* caches.keys()
Keys == {n \in CacheNames : registry[n] # 0}

\* caches.open(name) can resolve: the store exists or an id is left to create it
CanOpen(name) == registry[name] # 0 \/ nextId <= MaxStores

\* the id caches.open(name) resolves with
OpenedId(name) == IF registry[name] # 0 THEN registry[name] ELSE nextId

\* the registry after caches.open(name): the store is created when absent
RegistryAfterOpen(name) ==
    IF registry[name] # 0 THEN registry ELSE [registry EXCEPT ![name] = nextId]

NextIdAfterOpen(name) == IF registry[name] # 0 THEN nextId ELSE nextId + 1

\* the contents of the current version's store (empty when there is none)
CurrentStore == IF registry[CACHE_NAME] = 0 THEN EmptyStore ELSE stores[registry[CACHE_NAME]]

\* the URLs a store holds
UrlsOf(store) == {u \in AllURLs : store[u] # NoEntry}

---------------------------------------------------------------------------
(* Install: precacheFromManifest *)

\* Object.values(manifest.files), a falsy value written ""
FileValues == {"", INDEX_URL, MAIN_JS}

RECURSIVE SeqsUpTo(_, _)
SeqsUpTo(S, n) ==
    IF n = 0 THEN {<<>>}
    ELSE LET shorter == SeqsUpTo(S, n - 1)
         IN  shorter \cup {Append(s, x) : s \in {q \in shorter : Len(q) = n - 1}, x \in S}

\* what the fetch of /asset-manifest.json can come to:
\*   kind "neterr"  : fetch() rejects
\*   kind "notok"   : resolves with res.ok false (HTTP 500)
\*   kind "badjson" : res.json() rejects
\*   kind "nofiles" : parses to null or to an object without "files"
\*   kind "files"   : parses to an object whose files has the values `files`
ManifestOutcomes ==
    { [kind |-> k, files |-> <<>>] : k \in {"neterr", "notok", "badjson", "nofiles"} }
    \cup { [kind |-> "files", files |-> f] : f \in SeqsUpTo(FileValues, MaxFiles) }

\* manifest && manifest.files ? Object.values(manifest.files) : []
FilesOf(m) == IF m.kind = "files" THEN m.files ELSE <<>>

\* .filter(Boolean)
Truthy(u) == u # ""

FilterBoolean(s) == SelectSeq(s, Truthy)

\* const urls = [...CORE_URLS, ...files].filter(Boolean)
UrlList(m) == FilterBoolean(CORE_URLS \o FilesOf(m))

HasDuplicates(s) == \E i, j \in 1..Len(s) : i # j /\ s[i] = s[j]

\* cache.addAll(urls) resolves: every URL is fetched with an ok response, and
\* the batch names no request twice where the platform rejects such a batch
AddAllResolves(env, urls) ==
    /\ Range(urls) \subseteq env.avail
    /\ ~(env.dupRejects /\ HasDuplicates(urls))

\* the store after a resolved cache.addAll(urls)
StoreAfterAddAll(store, urls) ==
    [u \in AllURLs |-> IF u \in Range(urls) THEN MkResponse(200, "basic", 0) ELSE store[u]]

---------------------------------------------------------------------------
(* The environments and the initial states *)

\* the sets of URLs the origin serves with an ok response
AvailSets == { AllURLs, {}, AllURLs \ {MAIN_JS}, AllURLs \ {"/logo512.svg"} }

\* every environment of Install within the bounds
AllNets == [manifest : ManifestOutcomes, avail : AvailSets, dupRejects : BOOLEAN]

Manifest(k, f) == [kind |-> k, files |-> f]

\* three environments: the build's manifest served, the manifest endpoint
\* answering 500, and no network at all
FewNets ==
    { [manifest |-> Manifest("files", <<MAIN_JS>>), avail |-> AllURLs, dupRejects |-> TRUE],
      [manifest |-> Manifest("notok", <<>>), avail |-> AllURLs, dupRejects |-> TRUE],
      [manifest |-> Manifest("neterr", <<>>), avail |-> {}, dupRejects |-> TRUE] }

\* two environments in which Install succeeds: the manifest endpoint answering
\* 500, and a manifest that lists no files
FetchNets ==
    { [manifest |-> Manifest("notok", <<>>), avail |-> AllURLs, dupRejects |-> TRUE],
      [manifest |-> Manifest("nofiles", <<>>), avail |-> AllURLs, dupRejects |-> TRUE] }

\* what an earlier version's install left in its store
PrevStore == StoreAfterAddAll(EmptyStore, CORE_URLS)

NoStores == [i \in 1..MaxStores |-> EmptyStore]

\* the cache registry when the worker is first run: empty (first visit), the
\* previous version's store, or the stores of the two previous versions
InitRegistries ==
    { [reg |-> [n \in CacheNames |-> 0], st |-> NoStores, next |-> 1],
      [reg |-> [n \in CacheNames |-> IF n = PREV_CACHE_NAME THEN 1 ELSE 0],
       st |-> [NoStores EXCEPT ![1] = PrevStore], next |-> 2],
      [reg |-> [n \in CacheNames |-> IF n = OLDER_CACHE_NAME THEN 1
                                      ELSE IF n = PREV_CACHE_NAME THEN 2 ELSE 0],
       st |-> [NoStores EXCEPT ![2] = PrevStore], next |-> 3] }

NoRequest == [method |-> "", mode |-> "", destination |-> "", url |-> ""]

\* the fetch events the pages raise
Requests ==
    { [method |-> "GET", mode |-> "navigate", destination |-> "document", url |-> INDEX_URL],
      [method |-> "GET", mode |-> "no-cors", destination |-> "script", url |-> MAIN_JS],
      [method |-> "GET", mode |-> "same-origin", destination |-> "document", url |-> "/about"],
      [method |-> "POST", mode |-> "cors", destination |-> "", url |-> "/api/data"] }

\* A fetch task.  pc: the await it is suspended at; req: event.request; cn: the
\* CACHE_NAME of the worker that got the event; handle: the Cache object it
\* opened; net: fetch() calls made; got: what its fetch() resolved with; puts,
\* written, lost: cache.put calls made, completed and rejected; ret: the line
\* of the return statement that settled respondWith's promise; resp: the
\* response returned; after: the tasks, not yet released, that had answered
\* the same request when the event was dispatched.
IdleTask == [pc |-> "idle", req |-> NoRequest, cn |-> "", handle |-> 0,
             net |-> 0, got |-> NoEntry, puts |-> 0, written |-> 0, lost |-> 0,
             ret |-> 0, resp |-> NoEntry, after |-> {}]

InitWith(nets) ==
    /\ net \in nets
    /\ \E r \in InitRegistries :
          /\ registry = r.reg
          /\ stores = r.st
          /\ nextId = r.next
    /\ install = [pc |-> "open", handle |-> 0, urls |-> <<>>]
    /\ activate = [pc |-> "idle", pending |-> {}, mark |-> 0, runs |-> 0, active |-> FALSE]
    /\ tasks = [t \in 1..NTasks |-> IdleTask]

Init == InitWith(FewNets)

InitInstall == InitWith(AllNets)

---------------------------------------------------------------------------
(* install handler, lines 30-39, and precacheFromManifest, lines 16-28 *)

\* const cache = await caches.open(CACHE_NAME)
InstallOpen ==
    /\ install.pc = "open"
    /\ CanOpen(CACHE_NAME)
    /\ install' = [install EXCEPT !.pc = "manifest", !.handle = OpenedId(CACHE_NAME)]
    /\ registry' = RegistryAfterOpen(CACHE_NAME)
    /\ nextId' = NextIdAfterOpen(CACHE_NAME)
    /\ UNCHANGED <<net, stores, activate, tasks>>

\* where precacheFromManifest goes once fetch('/asset-manifest.json') settles:
\* a rejection is caught, !res.ok returns, otherwise res.json() is awaited
AfterManifestFetch(m) ==
    IF m.kind = "neterr" THEN "catch"
    ELSE IF m.kind = "notok" THEN "skipWaiting"
    ELSE "json"

\* const res = await fetch('/asset-manifest.json', ...); if (!res.ok) return;
PrecacheFetch ==
    /\ install.pc = "manifest"
    /\ install' = [install EXCEPT !.pc = AfterManifestFetch(net.manifest)]
    /\ UNCHANGED <<net, registry, stores, nextId, activate, tasks>>

\* const manifest = await res.json(); const files = ...; const urls = ...
PrecacheJson ==
    /\ install.pc = "json"
    /\ install' = IF net.manifest.kind = "badjson"
                  THEN [install EXCEPT !.pc = "catch"]
                  ELSE [install EXCEPT !.pc = "addAll", !.urls = UrlList(net.manifest)]
    /\ UNCHANGED <<net, registry, stores, nextId, activate, tasks>>

\* await cache.addAll(urls), a rejection caught by line 24
PrecacheAddAll ==
    /\ install.pc = "addAll"
    /\ IF AddAllResolves(net, install.urls)
       THEN /\ stores' = [stores EXCEPT ![install.handle] = StoreAfterAddAll(@, install.urls)]
            /\ install' = [install EXCEPT !.pc = "skipWaiting"]
       ELSE /\ install' = [install EXCEPT !.pc = "catch"]
            /\ UNCHANGED stores
    /\ UNCHANGED <<net, registry, nextId, activate, tasks>>

\* the fallback's rejection swallowed: the install goes on without the write
PrecacheCatchSwallowed ==
    /\ install.pc = "catch"
    /\ install' = [install EXCEPT !.pc = "skipWaiting"]
    /\ stores' = IF AddAllResolves(net, CORE_URLS)
                 THEN [stores EXCEPT ![install.handle] = StoreAfterAddAll(@, CORE_URLS)]
                 ELSE stores
    /\ UNCHANGED <<net, registry, nextId, activate, tasks>>

\* catch (err) { await cache.addAll(CORE_URLS); }: a rejection here rejects
\* the promise given to event.waitUntil and the installation fails
PrecacheCatch ==
    /\ install.pc = "catch"
    /\ IF AddAllResolves(net, CORE_URLS)
       THEN /\ stores' = [stores EXCEPT ![install.handle] = StoreAfterAddAll(@, CORE_URLS)]
            /\ install' = [install EXCEPT !.pc = "skipWaiting", !.urls = CORE_URLS]
       ELSE /\ install' = [install EXCEPT !.pc = "failed"]
            /\ UNCHANGED stores
    /\ UNCHANGED <<net, registry, nextId, activate, tasks>>

\* self.skipWaiting(); the install task is finished
SkipWaiting ==
    /\ install.pc = "skipWaiting"
    /\ install' = [install EXCEPT !.pc = "installed"]
    /\ UNCHANGED <<net, registry, stores, nextId, activate, tasks>>

Install == InstallOpen \/ PrecacheFetch \/ PrecacheJson \/ PrecacheAddAll
               \/ PrecacheCatch \/ SkipWaiting

\* the Install phase is over, with the worker installed or the installation failed
InstallFinished == install.pc \in {"installed", "failed"}

---------------------------------------------------------------------------
(* activate handler, lines 41-53 *)

\* the condition dropped: every key is deleted
DeletedAll(key) == TRUE

\* key !== CACHE_NAME ? caches.delete(key) : Promise.resolve()
Deleted(key) == key # CACHE_NAME

\* const keys = await caches.keys(); keys.map(...) starts every deletion.
\* mark remembers which Cache objects existed when keys() resolved.
ActivateKeys ==
    /\ install.pc = "installed"
    /\ activate.pc \in {"idle", "done"}
    /\ activate.runs < MaxActivations
    /\ activate' = [activate EXCEPT !.pc = "deleting",
                                    !.pending = {k \in Keys : Deleted(k)},
                                    !.mark = nextId,
                                    !.runs = @ + 1]
    /\ UNCHANGED <<net, registry, stores, nextId, install, tasks>>

\* one caches.delete(key) completes
ActivateDelete ==
    /\ activate.pc = "deleting"
    /\ \E k \in activate.pending :
          /\ registry' = [registry EXCEPT ![k] = 0]
          /\ activate' = [activate EXCEPT !.pending = @ \ {k}]
    /\ UNCHANGED <<net, stores, nextId, install, tasks>>

\* the deletions not awaited: self.clients.claim() is called at once
ActivateAllNotAwaited ==
    /\ activate.pc = "deleting"
    /\ activate' = [activate EXCEPT !.pc = "claim"]
    /\ UNCHANGED <<net, registry, stores, nextId, install, tasks>>

\* Promise.all(...) resolves; self.clients.claim() is called
ActivateAll ==
    /\ activate.pc = "deleting"
    /\ activate.pending = {}
    /\ activate' = [activate EXCEPT !.pc = "claim"]
    /\ UNCHANGED <<net, registry, stores, nextId, install, tasks>>

\* await self.clients.claim() resolves; the activate task is finished
ActivateClaim ==
    /\ activate.pc = "claim"
    /\ activate' = [activate EXCEPT !.pc = "done", !.active = TRUE]
    /\ UNCHANGED <<net, registry, stores, nextId, install, tasks>>

Activate == ActivateKeys \/ ActivateDelete \/ ActivateAll \/ ActivateClaim

NextInstall == Install \/ Activate

SpecInstall == InitInstall /\ [][NextInstall]_vars

---------------------------------------------------------------------------
(* fetch handler, lines 55-102 *)

\* The store name compiled into the worker that receives a fetch event: the
\* superseded worker until this one starts to activate, this one once activated.
Dispatching == IF activate.active THEN {CACHE_NAME}
               ELSE IF activate.runs = 0 THEN {PREV_CACHE_NAME}
               ELSE {}

\* the method filter dropped: every request is handled
EntryAnyMethod(req) == IF req.mode = "navigate" THEN "navfetch" ELSE "open"

\* where the listener leaves the event: no respondWith for a method other than
\* GET (line 58), the navigation task (line 61) or the cache-first task (line 80)
Entry(req) ==
    IF req.method # "GET" THEN "passthrough"
    ELSE IF req.mode = "navigate" THEN "navfetch"
    ELSE "open"

\* the listener runs up to the first await of the task it starts: fetch(request)
\* is already called for a navigation, caches.open for another GET
FetchEvent(t, req) ==
    /\ tasks[t].pc = "idle"
    /\ \A u \in 1..(t - 1) : tasks[u].pc # "idle"
    /\ \E cn \in Dispatching :
          tasks' = [tasks EXCEPT ![t] = [@ EXCEPT !.pc = Entry(req), !.req = req, !.cn = cn,
                                                 !.net = IF Entry(req) = "navfetch" THEN 1 ELSE 0,
                                                 !.after = {u \in 1..NTasks : tasks[u].pc = "done" /\ tasks[u].req = req}]]
    /\ UNCHANGED <<net, registry, stores, nextId, install, activate>>

\* a response that is not a 200 treated as a failure
NavReturnedOnlyOk(r) == IF r.status = 200 THEN r ELSE ErrorResponse

\* line 67: return networkResponse
NavReturned(r) == r

\* lines 66-67: the navigation's fetch resolves, with any status
NavResolve(t, r) ==
    /\ tasks[t].pc = "navfetch"
    /\ tasks' = [tasks EXCEPT ![t] = [@ EXCEPT !.pc = "done", !.got = r, !.ret = 67,
                                                 !.resp = NavReturned(r)]]
    /\ UNCHANGED <<net, registry, stores, nextId, install, activate>>

\* line 68: the navigation's fetch rejects; caches.open(CACHE_NAME) is called
NavReject(t) ==
    /\ tasks[t].pc = "navfetch"
    /\ tasks' = [tasks EXCEPT ![t] = [@ EXCEPT !.pc = "navopen"]]
    /\ UNCHANGED <<net, registry, stores, nextId, install, activate>>

\* line 70: const cache = await caches.open(CACHE_NAME)
NavOpen(t) ==
    /\ tasks[t].pc = "navopen"
    /\ CanOpen(tasks[t].cn)
    /\ tasks' = [tasks EXCEPT ![t] = [@ EXCEPT !.pc = "navmatch", !.handle = OpenedId(tasks[t].cn)]]
    /\ registry' = RegistryAfterOpen(tasks[t].cn)
    /\ nextId' = NextIdAfterOpen(tasks[t].cn)
    /\ UNCHANGED <<net, stores, install, activate>>

\* what a task answers when it falls back to the root document:
\* (await cache.match('/index.html')) || Response.error()
RootDocument(t) == OrError(stores[tasks[t].handle][INDEX_URL])

\* lines 71-72
NavMatch(t) ==
    /\ tasks[t].pc = "navmatch"
    /\ tasks' = [tasks EXCEPT ![t] = [@ EXCEPT !.pc = "done", !.ret = 72, !.resp = RootDocument(t)]]
    /\ UNCHANGED <<net, registry, stores, nextId, install, activate>>

\* line 82: const cache = await caches.open(CACHE_NAME)
Open(t) ==
    /\ tasks[t].pc = "open"
    /\ CanOpen(tasks[t].cn)
    /\ tasks' = [tasks EXCEPT ![t] = [@ EXCEPT !.pc = "match", !.handle = OpenedId(tasks[t].cn)]]
    /\ registry' = RegistryAfterOpen(tasks[t].cn)
    /\ nextId' = NextIdAfterOpen(tasks[t].cn)
    /\ UNCHANGED <<net, stores, install, activate>>

\* const cached = await cache.match(request)
Cached(t) == stores[tasks[t].handle][tasks[t].req.url]

\* the lookup's result ignored
IsHitNever(cached) == FALSE

\* line 84: if (cached)
IsHit(cached) == cached # NoEntry

\* lines 83-86: a hit is returned, a miss calls fetch(request)
Match(t) ==
    /\ tasks[t].pc = "match"
    /\ tasks' = [tasks EXCEPT ![t] =
                    IF IsHit(Cached(t))
                    THEN [@ EXCEPT !.pc = "done", !.ret = 84, !.resp = Cached(t)]
                    ELSE [@ EXCEPT !.pc = "fetch", !.net = @ + 1]]
    /\ UNCHANGED <<net, registry, stores, nextId, install, activate>>

\* the status test dropped
CacheableAnyStatus(r) == r.type = "basic"

\* line 88: response && response.status === 200 && response.type === 'basic'
Cacheable(r) == r.status = 200 /\ r.type = "basic"

\* line 89: the number of cache.put(request, response.clone()) calls made for r
PutCalls(r) == IF Cacheable(r) THEN 1 ELSE 0

\* the duplicate returned instead of the original
ReturnedClone(r) == Clone(r)

\* line 91: return response
Returned(r) == r

\* lines 86-91: the fetch resolves; cache.put is called and not awaited
FetchResolve(t, r) ==
    /\ tasks[t].pc = "fetch"
    /\ tasks' = [tasks EXCEPT ![t] = [@ EXCEPT !.pc = "done", !.got = r, !.ret = 91,
                                                 !.resp = Returned(r),
                                                 !.puts = @ + PutCalls(r)]]
    /\ UNCHANGED <<net, registry, stores, nextId, install, activate>>

\* the rejection left without a handler: the task stays suspended
FetchRejectUnsettled(t) ==
    /\ tasks[t].pc = "fetch"
    /\ tasks' = [tasks EXCEPT ![t] = [@ EXCEPT !.pc = "suspended"]]
    /\ UNCHANGED <<net, registry, stores, nextId, install, activate>>

\* the navigation flag tested instead of the destination
WantsDocumentByMode(req) == req.mode = "navigate"

\* line 94: request.destination === 'document'
WantsDocument(req) == req.destination = "document"

\* lines 92-98: the fetch rejects
FetchReject(t) ==
    /\ tasks[t].pc = "fetch"
    /\ tasks' = [tasks EXCEPT ![t] =
                    IF WantsDocument(tasks[t].req)
                    THEN [@ EXCEPT !.pc = "fallback"]
                    ELSE [@ EXCEPT !.pc = "done", !.ret = 98, !.resp = ErrorResponse]]
    /\ UNCHANGED <<net, registry, stores, nextId, install, activate>>

\* lines 95-96
Fallback(t) ==
    /\ tasks[t].pc = "fallback"
    /\ tasks' = [tasks EXCEPT ![t] = [@ EXCEPT !.pc = "done", !.ret = 96, !.resp = RootDocument(t)]]
    /\ UNCHANGED <<net, registry, stores, nextId, install, activate>>

\* a cache.put called by task t has neither completed nor rejected
PutPending(t) == tasks[t].written + tasks[t].lost < tasks[t].puts

\* an entry already there kept: the first write wins
PutEntryKeepFirst(t) == IF Cached(t) # NoEntry THEN Cached(t) ELSE Clone(tasks[t].got)

\* the entry the pending cache.put of task t writes
PutEntry(t) == Clone(tasks[t].got)

\* the cache.put called on line 89 completes, on the Cache object the task opened
PutDone(t) ==
    /\ PutPending(t)
    /\ stores' = [stores EXCEPT ![tasks[t].handle][tasks[t].req.url] = PutEntry(t)]
    /\ tasks' = [tasks EXCEPT ![t] = [@ EXCEPT !.written = @ + 1]]
    /\ UNCHANGED <<net, registry, nextId, install, activate>>

\* the cache operations the handler awaits outside any try block: caches.open
\* and cache.match on lines 82-83, and the ones of the two catch blocks on
\* lines 70-71 and 95
AwaitsCache(t) == tasks[t].pc \in {"open", "match", "navopen", "navmatch", "fallback"}

\* the cache operation task t awaits rejects (store unavailable): the
\* exception leaves the async function and respondWith's promise rejects
CacheReject(t) ==
    /\ AwaitsCache(t)
    /\ tasks' = [tasks EXCEPT ![t] = [@ EXCEPT !.pc = "rejected"]]
    /\ UNCHANGED <<net, registry, stores, nextId, install, activate>>

\* the cache.put called on line 89 rejects (quota exceeded); nothing awaits
\* or handles its promise
PutReject(t) ==
    /\ PutPending(t)
    /\ tasks' = [tasks EXCEPT ![t] = [@ EXCEPT !.lost = @ + 1]]
    /\ UNCHANGED <<net, registry, stores, nextId, install, activate>>

\* The event of task t is over: its response is delivered (or the request went
\* past the worker) and no cache.put of it is pending; the worker keeps
\* nothing of it.
Release(t) ==
    /\ tasks[t].pc \in {"done", "passthrough"}
    /\ ~PutPending(t)
    /\ tasks' = [u \in 1..NTasks |->
                    IF u = t THEN IdleTask ELSE [tasks[u] EXCEPT !.after = @ \ {t}]]
    /\ UNCHANGED <<net, registry, stores, nextId, install, activate>>

Fetch ==
    \E t \in 1..NTasks :
        \/ \E req \in Requests : FetchEvent(t, req)
        \/ \E r \in NetResponses(t) : NavResolve(t, r)
        \/ NavReject(t)
        \/ NavOpen(t)
        \/ NavMatch(t)
        \/ Open(t)
        \/ Match(t)
        \/ \E r \in NetResponses(t) : FetchResolve(t, r)
        \/ FetchReject(t)
        \/ Fallback(t)
        \/ PutDone(t)

Next == Install \/ Activate \/ Fetch

\* The worker installed, activated and in control of the pages: the states in
\* which its fetch handler receives events.
InitFetch ==
    /\ net \in FetchNets
    /\ registry = [n \in CacheNames |-> IF n = CACHE_NAME THEN 1 ELSE 0]
    /\ nextId = 2
    /\ \/ /\ net.manifest.kind = "notok"
          /\ stores = NoStores
          /\ install = [pc |-> "installed", handle |-> 1, urls |-> <<>>]
       \/ /\ net.manifest.kind \in {"files", "nofiles"}
          /\ AddAllResolves(net, UrlList(net.manifest))
          /\ stores = [NoStores EXCEPT ![1] = StoreAfterAddAll(EmptyStore, UrlList(net.manifest))]
          /\ install = [pc |-> "installed", handle |-> 1, urls |-> UrlList(net.manifest)]
    /\ activate = [pc |-> "done", pending |-> {}, mark |-> 1, runs |-> 1, active |-> TRUE]
    /\ tasks = [t \in 1..NTasks |-> IdleTask]

\* the worker in service: events come, are handled and end
NextFetch == Fetch \/ \E t \in 1..NTasks : Release(t)

SpecFetch == InitFetch /\ [][NextFetch]_vars

Spec == Init /\ [][Next]_vars

\* the events of the worker in service when cache-store operations can fail
NextFaulty == Fetch \/ \E t \in 1..NTasks : CacheReject(t) \/ PutReject(t)

SpecFaulty == InitFetch /\ [][NextFaulty]_vars

\* the operation task t awaits resolves or rejects, and the task runs to its
\* next await, to its return or to its rejection
Resume(t) ==
    \/ \E r \in NetResponses(t) : NavResolve(t, r)
    \/ NavReject(t)
    \/ NavOpen(t)
    \/ NavMatch(t)
    \/ Open(t)
    \/ Match(t)
    \/ \E r \in NetResponses(t) : FetchResolve(t, r)
    \/ FetchReject(t)
    \/ Fallback(t)
    \/ CacheReject(t)

\* the events as far as the awaited operations go, each of them resolving or
\* failing in the end (the promise jobs of a running worker are always run)
NextAnswer == Fetch \/ \E t \in 1..NTasks : CacheReject(t)

SpecAnswer == InitFetch /\ [][NextAnswer]_vars /\ \A t \in 1..NTasks : WF_vars(Resume(t))

---------------------------------------------------------------------------
(* Install: what the store holds when the phase is over *)

\* the manifest fetch failed: network error, non-success status or parse error
ManifestFailed == net.manifest.kind \in {"neterr", "notok", "badjson"}

\* the manifest fetch resolved with a success status and parsed
ManifestParsed == net.manifest.kind \in {"files", "nofiles"}

\* the core list merged with the manifest's file paths, as a set (duplicates
\* removed), empty entries discarded
MergedUrls == CoreSet \cup {u \in Range(FilesOf(net.manifest)) : u # ""}

\* C1: whenever the manifest fetch fails (network error, non-success status,
\* parse error) and the core URLs can be fetched, Install completes and the
\* current store holds exactly the six core URLs.
C1_FailedManifestLeavesCore ==
    (InstallFinished /\ ManifestFailed /\ CoreSet \subseteq net.avail)
        => (install.pc = "installed" /\ UrlsOf(CurrentStore) = CoreSet)

\* C2: once the Install phase has finished, whatever the network did, the
\* current version's store is not empty.
C2_StoreNotEmptyAfterInstall ==
    InstallFinished => UrlsOf(CurrentStore) # {}

\* C3: when the manifest is fetched and parsed, the list handed to the bulk
\* insert is the core list merged with the manifest's paths without duplicates
\* and without empty entries, and the store ends up holding exactly these URLs
\* when they can all be fetched.
C3_MergedDeduplicatedList ==
    ManifestParsed =>
        /\ install.pc = "addAll" =>
              (Range(install.urls) = MergedUrls /\ ~HasDuplicates(install.urls))
        /\ (install.pc = "installed" /\ MergedUrls \subseteq net.avail) =>
              UrlsOf(CurrentStore) = MergedUrls

---------------------------------------------------------------------------
(* Activate *)

\* the stores registered under another version's name that already existed
\* when Activate enumerated the registry
StaleSurvivors ==
    {n \in CacheNames \ {CACHE_NAME} : registry'[n] # 0 /\ registry'[n] < activate'.mark}

\* C10: Activate deletes every store of the registry whose name is not the
\* current version's, and no step of it touches the current version's store
\* or its entries.
C10_ActivateDeletesOnlyStale ==
    [][ activate' # activate =>
          /\ registry'[CACHE_NAME] = registry[CACHE_NAME]
          /\ stores' = stores
          /\ activate'.pc \in {"claim", "done"} => StaleSurvivors = {} ]_vars

\* Scenario 6: hob-tools-v0 and hob-tools-v1 were there, only hob-tools-v2 is left
C10_Witness ==
    /\ activate.pc = "done"
    /\ registry[CACHE_NAME] = 3
    /\ Keys = {CACHE_NAME}
    /\ UrlsOf(CurrentStore) # {}

---------------------------------------------------------------------------
(* Fetch *)

IsGet(t) == tasks[t].req.method = "GET"

IsNavigation(t) == IsGet(t) /\ tasks[t].req.mode = "navigate"

IsRuntime(t) == IsGet(t) /\ tasks[t].req.mode # "navigate"

\* the store registered under the name of the version that handles task t
VersionStore(t) ==
    IF registry[tasks[t].cn] = 0 THEN EmptyStore ELSE stores[registry[tasks[t].cn]]

\* the cached root document of that store, or a network-error response
RootOrError(t) ==
    IF VersionStore(t)[INDEX_URL] # NoEntry THEN VersionStore(t)[INDEX_URL] ELSE ErrorResponse

\* task t takes the step that settles its response
Settles(t) == tasks[t].pc # "done" /\ tasks'[t].pc = "done"

\* a response that is both status 200 and type 'basic'
OkBasic(r) == r.status = 200 /\ r.type = "basic"

\* C4: a non-navigation GET whose request is in the current store when it is
\* looked up is answered with the stored response, without a network call and
\* without a change of the store.
C4_HitServedFromStore ==
    [][ \A t \in 1..NTasks :
          /\ (IsRuntime(t) /\ tasks[t].pc = "match" /\ tasks'[t].pc # "match"
                /\ VersionStore(t)[tasks[t].req.url] # NoEntry) =>
                 /\ tasks'[t].pc = "done"
                 /\ tasks'[t].resp = VersionStore(t)[tasks[t].req.url]
                 /\ tasks'[t].net = 0
                 /\ tasks'[t].puts = 0
                 /\ stores' = stores /\ registry' = registry
          /\ (tasks[t].pc = "done" /\ tasks'[t].pc = "done") =>
                 (tasks'[t].net = tasks[t].net /\ tasks'[t].resp = tasks[t].resp) ]_vars

C4_Witness ==
    \E t \in 1..NTasks :
        /\ IsRuntime(t) /\ tasks[t].pc = "done" /\ tasks[t].ret = 84
        /\ tasks[t].net = 0
        /\ tasks[t].resp = VersionStore(t)[tasks[t].req.url]

\* the entries of the store of task t's version, before and after a step
EntryOf(t, url) == VersionStore(t)[url]

EntryOfNext(t, url) ==
    IF registry'[tasks[t].cn] = 0 THEN NoEntry ELSE stores'[registry'[tasks[t].cn]][url]

\* C5: a non-navigation GET that missed the store and whose fetch resolved with
\* a 200 'basic' response returns the network's own response and makes exactly
\* one cache.put; when that put completes, the entry under the request's URL is
\* a duplicate of the response and no other entry has changed.
C5_MissStoresOneCopy ==
    [][ \A t \in 1..NTasks :
          /\ (IsRuntime(t) /\ tasks'[t].ret = 91 /\ OkBasic(tasks'[t].got)) =>
                /\ tasks'[t].puts = 1
                /\ tasks'[t].written <= 1
                /\ tasks'[t].resp = tasks'[t].got
                /\ ~tasks'[t].resp.clone
          /\ (IsRuntime(t) /\ tasks[t].ret = 91 /\ OkBasic(tasks[t].got)
                /\ tasks'[t].written = tasks[t].written + 1) =>
                /\ EntryOfNext(t, tasks[t].req.url) = Clone(tasks[t].got)
                /\ \A u \in AllURLs \ {tasks[t].req.url} : EntryOfNext(t, u) = EntryOf(t, u)
          /\ (IsRuntime(t) /\ tasks[t].pc = "fetch" /\ Settles(t)) =>
                (stores' = stores /\ registry' = registry) ]_vars

C5_Witness ==
    \E t \in 1..NTasks :
        /\ IsRuntime(t) /\ tasks[t].ret = 91 /\ OkBasic(tasks[t].got)
        /\ tasks[t].written = 1
        /\ VersionStore(t)[tasks[t].req.url] = Clone(tasks[t].got)
        /\ tasks[t].resp = tasks[t].got

\* task t returned a network response that is not both 200 and 'basic'
Uncacheable(t) == IsRuntime(t) /\ tasks[t].ret = 91 /\ ~OkBasic(tasks[t].got)

\* u handles a request identical to t's, dispatched after t returned, and has
\* looked the request up
LaterSame(t, u) == t \in tasks[u].after /\ tasks[u].pc \notin {"open", "match"}

\* C6 as stated: a resolved response that is not both 200 and 'basic' is
\* returned and not written, and every later identical request goes to the
\* network.
C6_UncacheableAlwaysRefetched ==
    \A t \in 1..NTasks :
        Uncacheable(t) =>
            /\ tasks[t].resp = tasks[t].got
            /\ tasks[t].puts = 0
            /\ \A u \in 1..NTasks : LaterSame(t, u) => tasks[u].net = 1

\* C6 amended: such a response is returned, no cache.put is made for it and no
\* store ever holds it; a later identical request goes to the network unless
\* it finds a 200 'basic' response that another fetch has stored meanwhile.
C6_UncacheableNeverStored ==
    \A t \in 1..NTasks :
        Uncacheable(t) =>
            /\ tasks[t].resp = tasks[t].got
            /\ tasks[t].puts = 0
            /\ \A u \in AllURLs : VersionStore(t)[u] \notin {tasks[t].got, Clone(tasks[t].got)}
            /\ \A u \in 1..NTasks :
                  LaterSame(t, u) =>
                      \/ tasks[u].net = 1
                      \/ tasks[u].ret = 84 /\ OkBasic(tasks[u].resp)

C6_Witness ==
    \E t, u \in 1..NTasks :
        /\ Uncacheable(t) /\ tasks[t].got.type = "opaque"
        /\ LaterSame(t, u) /\ tasks[u].net = 1 /\ tasks[u].pc = "done"

\* C7: a navigation GET calls the network before anything else, and when the
\* fetch resolves, with whatever status, that response is returned unmodified
\* and no Cache object is opened or read.
C7_NavigationNetworkFirst ==
    \A t \in 1..NTasks :
        (IsNavigation(t) /\ tasks[t].pc # "idle") =>
            /\ tasks[t].net = 1
            /\ tasks[t].pc = "navfetch" => tasks[t].handle = 0
            /\ tasks[t].got # NoEntry =>
                  /\ tasks[t].pc = "done" /\ tasks[t].ret = 67
                  /\ tasks[t].resp = tasks[t].got
                  /\ tasks[t].handle = 0

C7_Witness ==
    \E t \in 1..NTasks :
        /\ IsNavigation(t) /\ tasks[t].pc = "done"
        /\ tasks[t].got.status = 404 /\ tasks[t].resp = tasks[t].got
        /\ VersionStore(t)[tasks[t].req.url] # NoEntry

\* C8: a navigation GET whose fetch rejected is answered with the cached
\* /index.html of the current store when there is one, and with a
\* network-error response otherwise; the task always returns a response.
C8_NavigationFallback ==
    [][ \A t \in 1..NTasks :
          (IsNavigation(t) /\ Settles(t) /\ tasks'[t].got = NoEntry) =>
              /\ tasks'[t].resp = RootOrError(t)
              /\ tasks'[t].resp # NoEntry ]_vars

\* Scenario 3: offline, the root document cached
C8_Witness ==
    \E t \in 1..NTasks :
        /\ IsNavigation(t) /\ tasks[t].pc = "done" /\ tasks[t].got = NoEntry
        /\ tasks[t].ret = 72
        /\ tasks[t].resp = VersionStore(t)[INDEX_URL]

\* C9: a non-navigation GET that missed the store and whose fetch rejected is
\* answered, when its destination is 'document', with the cached /index.html
\* if there is one and a network-error response if not, and for any other
\* destination with a network-error response; no step after the rejection
\* changes a store.
C9_RuntimeFallback ==
    [][ \A t \in 1..NTasks :
          /\ (IsRuntime(t) /\ Settles(t) /\ tasks[t].pc # "match" /\ tasks'[t].got = NoEntry) =>
                /\ tasks'[t].resp = IF tasks[t].req.destination = "document"
                                    THEN RootOrError(t) ELSE ErrorResponse
                /\ tasks'[t].puts = 0
                /\ stores' = stores /\ registry' = registry
          /\ (IsRuntime(t) /\ tasks[t].pc = "fetch" /\ tasks'[t].pc = "fallback") =>
                (stores' = stores /\ registry' = registry) ]_vars

C9_Witness ==
    /\ \E t \in 1..NTasks :
          /\ IsRuntime(t) /\ tasks[t].ret = 96
          /\ tasks[t].resp = VersionStore(t)[INDEX_URL]
    /\ \E t \in 1..NTasks :
          /\ IsRuntime(t) /\ tasks[t].ret = 98 /\ tasks[t].resp = ErrorResponse

---------------------------------------------------------------------------
(* Versioning *)

\* Install and Activate of this version have both completed
CycleCompleted == install.pc = "installed" /\ activate.pc = "done"

\* C11: once Install and Activate of the new version have both completed, no
\* store is registered under a previous version's name, and when the manifest
\* was fetched and parsed and its URLs can be fetched, the store under the new
\* name holds the core URLs and every path the manifest lists.
C11_NewVersionStoreOnly ==
    CycleCompleted =>
        /\ Keys = {CACHE_NAME}
        /\ (ManifestParsed /\ MergedUrls \subseteq net.avail) =>
              UrlsOf(CurrentStore) = MergedUrls

---------------------------------------------------------------------------
(* Termination of the fetch handler *)

\* the response is the network's own, a stored one, or Response.error()
Answered(t) ==
    /\ tasks[t].pc = "done"
    /\ tasks[t].resp # NoEntry
    /\ \/ tasks[t].ret \in {67, 91} /\ tasks[t].resp = tasks[t].got
       \/ tasks[t].ret \in {72, 84, 96} /\ tasks[t].resp.status = 200
       \/ tasks[t].ret \in {72, 96, 98} /\ tasks[t].resp = ErrorResponse

\* the task ended with an exception: respondWith's promise is rejected
Rejected(t) == tasks[t].pc = "rejected"

\* C12 as stated: every GET the handler intercepts is eventually answered with
\* the network's response, a stored response or a network-error response,
\* when every awaited network and cache operation eventually resolves or fails.
C12_EveryGetAnswered ==
    \A t \in 1..NTasks :
        (IsGet(t) /\ tasks[t].pc # "idle") ~> Answered(t)

\* C12 amended: every GET the handler intercepts eventually ends, either
\* answered with the network's response, a stored response or a network-error
\* response, or rejected because a cache-store operation it awaited failed;
\* no task stays pending forever.
C12_EveryGetEnds ==
    \A t \in 1..NTasks :
        (IsGet(t) /\ tasks[t].pc # "idle") ~> (Answered(t) \/ Rejected(t))

\* one navigation ended with the network-error response of its fallback,
\* another GET ended rejected after its fetch had failed and the lookup of the
\* root document failed too
C12_Witness ==
    \E t, u \in 1..NTasks :
        /\ IsGet(t) /\ Answered(t) /\ tasks[t].ret = 72 /\ tasks[t].resp = ErrorResponse
        /\ IsRuntime(u) /\ Rejected(u) /\ tasks[u].net = 1

---------------------------------------------------------------------------
(* Failures of cache-store operations *)

\* C13: a failure of a cache-store operation during fetch handling (opening
\* the store, a lookup, or the write of the runtime-cached duplicate) rejects
\* the fetch-handling task: a task whose cache.put failed is rejected, and a
\* rejected task has delivered no response.
C13_CacheFailureRejectsTask ==
    \A t \in 1..NTasks :
        /\ tasks[t].lost > 0 => Rejected(t)
        /\ Rejected(t) => tasks[t].resp = NoEntry

---------------------------------------------------------------------------
(* Requests that are not GET *)

\* the event of slot t carries a request whose method is not GET
NotGet(t) == tasks[t].pc # "idle" /\ tasks[t].req.method # "GET"

\* C14: for a request whose method is not GET the listener returns without
\* calling respondWith: no task is started for it, no fetch() is called, no
\* Cache object is opened or written, and the step that dispatches the event
\* leaves the registry and every store unchanged.
C14_NonGetPassesThrough ==
    [][ \A t \in 1..NTasks :
          (tasks'[t].pc # "idle" /\ tasks'[t].req.method # "GET") =>
              /\ tasks'[t].pc = "passthrough"
              /\ tasks'[t].net = 0 /\ tasks'[t].handle = 0 /\ tasks'[t].puts = 0
              /\ tasks'[t].ret = 0 /\ tasks'[t].resp = NoEntry
              /\ tasks[t].pc = "idle" => (stores' = stores /\ registry' = registry) ]_vars

\* a POST went past the worker while a GET was answered and runtime-cached
C14_Witness ==
    \E t, u \in 1..NTasks :
        /\ NotGet(t) /\ tasks[t].req.method = "POST" /\ tasks[t].pc = "passthrough"
        /\ tasks[u].pc = "done" /\ tasks[u].written = 1

---------------------------------------------------------------------------
(* Activate run again *)

\* C15: when Activate runs again with no Install in between, the run finds no
\* store to delete, ends like the first one, and none of its steps changes the
\* registry, a store or the install task.
C15_SecondActivateChangesNothing ==
    [][ (activate' # activate /\ activate'.runs >= 2) =>
          /\ activate'.pending = {}
          /\ activate'.pc \in {"deleting", "claim", "done"}
          /\ registry' = registry
          /\ stores' = stores
          /\ install' = install ]_vars

\* the second Activate is over: hob-tools-v1 went in the first run, the
\* current store is as Install filled it
C15_Witness ==
    /\ activate.runs = 2 /\ activate.pc = "done"
    /\ Keys = {CACHE_NAME}
    /\ registry[CACHE_NAME] = 2
    /\ UrlsOf(CurrentStore) = Range(install.urls)
    /\ MAIN_JS \in UrlsOf(CurrentStore)

---------------------------------------------------------------------------
(* Order of the runtime write and the return *)

\* C16: on a miss answered by the network with a 200 'basic' response, the
\* write of the duplicate has completed when the response is returned: no task
\* has returned on line 91 while a cache.put of it is pending.
C16_WriteBeforeReturn ==
    \A t \in 1..NTasks :
        (IsRuntime(t) /\ tasks[t].pc = "done" /\ tasks[t].ret = 91 /\ OkBasic(tasks[t].got)) =>
            ~PutPending(t)

---------------------------------------------------------------------------
(* Order of Install, the takeover signal and Activate *)

\* self.skipWaiting() is the next statement or has been executed
PrecacheOver == install.pc \in {"skipWaiting", "installed"}

\* C17: the takeover signal is issued and Activate begins only when the
\* precache has completed: every URL of the list Install handed to the store
\* is in it and no later step of the lifecycle writes to a store; Activate
\* takes steps only once skipWaiting has been called; and when the precache
\* rejects, Install fails and neither skipWaiting nor Activate ever happens.
C17_TakeoverAfterPrecache ==
    [][ /\ PrecacheOver' =>
              /\ install.pc \in {"manifest", "addAll", "catch", "skipWaiting", "installed"}
              /\ UrlsOf(stores'[install'.handle]) = Range(install'.urls)
        /\ PrecacheOver => (stores' = stores /\ install'.urls = install.urls)
        /\ (install'.pc = "installed" /\ install.pc # "installed") => install.pc = "skipWaiting"
        /\ activate' # activate => (install.pc = "installed" /\ install' = install)
        /\ (install.pc = "catch" /\ ~AddAllResolves(net, CORE_URLS) /\ install' # install) =>
              install'.pc = "failed"
        /\ install.pc = "failed" => (install' = install /\ activate' = activate) ]_vars

\* Activate has begun on a store that holds the core list and the manifest's file
C17_Witness ==
    /\ activate.pc = "deleting" /\ activate.runs = 1
    /\ install.pc = "installed"
    /\ UrlsOf(stores[install.handle]) = CoreSet \cup {MAIN_JS}

---------------------------------------------------------------------------
(* Order inside Activate *)

\* C18: clients.claim() is called only when every caches.delete started by
\* Activate has completed and no store of another version is left, and the
\* phase ends, the worker taking the fetch events, only from the completed
\* claim.
C18_ClaimAfterDeletions ==
    [][ /\ (activate'.pc = "claim" /\ activate.pc # "claim") =>
              /\ activate.pc = "deleting"
              /\ activate.pending = {}
              /\ Keys \subseteq {CACHE_NAME}
        /\ (activate'.pc = "done" /\ activate.pc # "done") =>
              /\ activate.pc = "claim"
              /\ activate.pending = {}
              /\ Keys \subseteq {CACHE_NAME}
        /\ (activate'.active /\ ~activate.active) =>
              (activate.pc = "claim" /\ activate'.pc = "done") ]_vars

\* the claim is under way after the two stale stores have been deleted
C18_Witness ==
    /\ activate.pc = "claim" /\ activate.runs = 1 /\ ~activate.active
    /\ activate.mark = 4
    /\ Keys = {CACHE_NAME}

---------------------------------------------------------------------------
(* Two tasks racing for the same request *)

\* t has fetched request q from the network, got a 200 'basic' response and
\* returned it
FetchedAndStored(t, q) ==
    /\ IsRuntime(t) /\ tasks[t].req = q
    /\ tasks[t].ret = 91 /\ OkBasic(tasks[t].got)

\* C19: when two tasks for the same non-navigation GET both miss the store,
\* both fetch and both write, the put that completes last leaves under the
\* request's URL the duplicate of its own response, which replaces the other
\* task's, and each task has returned the response of its own fetch.
C19_LastWriteWins ==
    [][ \A t, u \in 1..NTasks :
          (/\ t # u
           /\ FetchedAndStored(t, tasks[t].req) /\ FetchedAndStored(u, tasks[t].req)
           /\ tasks[u].written = 1
           /\ tasks'[t].written = tasks[t].written + 1) =>
              /\ tasks[t].net = 1 /\ tasks[u].net = 1
              /\ EntryOfNext(t, tasks[t].req.url) = Clone(tasks[t].got)
              /\ EntryOfNext(t, tasks[t].req.url) # Clone(tasks[u].got)
              /\ tasks'[t].resp = tasks[t].got /\ tasks'[t].resp.body = t
              /\ tasks'[u].resp = tasks[u].got /\ tasks'[u].resp.body = u ]_vars

\* both writes are over: the store holds the second task's duplicate although
\* the first task's event came first, or the other way round
C19_Witness ==
    \E t, u \in 1..NTasks :
        /\ t # u
        /\ FetchedAndStored(t, tasks[t].req) /\ FetchedAndStored(u, tasks[t].req)
        /\ tasks[t].written = 1 /\ tasks[u].written = 1
        /\ VersionStore(t)[tasks[t].req.url] = Clone(tasks[t].got)
        /\ tasks[t].resp.body = t /\ tasks[u].resp.body = u

---------------------------------------------------------------------------
(* Tasks of the superseded worker *)

\* C20: once Activate of the current version has completed, the registry
\* holds no store under another name than the current version's, whatever
\* the fetch tasks of the superseded worker that are still in flight do.
C20_NoStaleStoreAfterActivate ==
    activate.pc = "done" => Keys \subseteq {CACHE_NAME}

====
